---- MODULE Spec2Model ----
(***************************************************************************)
(* A model of edit_dataset.py: the three dataset classes EpicEditDataset,  *)
(* EditDataset and EditDatasetEval, their constructors (assertions,        *)
(* manifest loading, shuffle, proportional slicing) and their __len__ and  *)
(* __getitem__ methods (file opening, random resize, normalisation, joint  *)
(* random crop and flip).                                                  *)
(*                                                                         *)
(* Floats are modelled exactly: a split proportion is a numerator over     *)
(* SplitDenom, a normalised pixel is a numerator over PixelMax, and a      *)
(* probability is a number of hundredths.                                  *)
(***************************************************************************)
EXTENDS Integers, Sequences, FiniteSets, TLC

VARIABLES
  disk,          \* the dataset directory: manifest length and missing files
  cfg,           \* the class under use and its constructor arguments
  wanted,        \* the splits the calling script builds a dataset for
  ds,            \* per requested split: the dataset object (or none/failed)
  last,          \* the outcome of the call in progress, until the caller takes it
  missedBefore   \* whether some earlier __getitem__ call has hit a missing file

vars == <<disk, cfg, wanted, ds, last, missedBefore>>

----------------------------------------------------------------------------
(* Bounds of the model *)

MaxRows == 3        \* manifest rows
MaxRes == 3         \* largest resolution argument tried
Channels == 2       \* colour channels of a decoded image
NegSplitNum == 2    \* most negative split numerator tried is -NegSplitNum
SplitDenom == 4     \* split proportions are k / SplitDenom

(* Program constants *)

LENGTH_FRAME_ID == 10
PixelMax == 255
ByteRange == PixelMax + 1

Classes == {"EpicEditDataset", "EditDataset", "EditDatasetEval"}
ValidSplits == {"train", "val", "test"}
SplitArgs == ValidSplits \cup {"all"}

----------------------------------------------------------------------------
(* Python and library primitives *)

\* math.floor(num / den) for den > 0
Floor(num, den) == num \div den

\* sum(splits) == 1, in units of 1 / SplitDenom
SumIsOne(splits) == 0 + splits[1] + splits[2] + splits[3] = SplitDenom

\* a slice bound as list slicing normalises it: negative counts from the end,
\* then clamped into 0..n
SliceBound(i, n) ==
  LET j == IF i < 0 THEN i + n ELSE i
  IN IF j < 0 THEN 0 ELSE IF j > n THEN n ELSE j

\* seq[i0:i1]
PySlice(seq, i0, i1) ==
  LET lo == SliceBound(i0, Len(seq))
      hi == SliceBound(i1, Len(seq))
  IN IF lo < hi THEN SubSeq(seq, lo + 1, hi) ELSE <<>>

\* seq[i] is defined for -n <= i < n
IndexOk(i, n) == -n <= i /\ i < n

\* the 1-based position seq[i] refers to
PyIndex(i, n) == IF i < 0 THEN i + n + 1 ELSE i + 1

\* torch.randint(low, high, ()): the values it can return; none when it raises
RandInt(low, high) == IF low < high THEN low .. (high - 1) ELSE {}

RECURSIVE Digits(_)
Digits(n) == IF n < 10 THEN <<n>> ELSE Append(Digits(n \div 10), n % 10)

RECURSIVE Zeros(_)
Zeros(k) == IF k <= 0 THEN <<>> ELSE <<0>> \o Zeros(k - 1)

\* the digits of f'{index:0{LENGTH_FRAME_ID}d}'
IndexToImgFn(index) ==
  LET d == Digits(index) IN Zeros(LENGTH_FRAME_ID - Len(d)) \o d

RECURSIVE DigitsValue(_)
DigitsValue(d) ==
  IF d = <<>> THEN 0 ELSE 10 * DigitsValue(SubSeq(d, 1, Len(d) - 1)) + d[Len(d)]

----------------------------------------------------------------------------
(* The dataset directory *)

\* row k of EPIC100_annotations.csv
CsvRow(k) ==
  [participant_id |-> (k + 1) \div 2, video_id |-> k,
   start_frame |-> k - 1, stop_frame |-> k,
   narration |-> <<"narration", k>>]

\* entry k of seeds.json: (name, seed-list)
SeedsEntry(k) ==
  [name |-> k, seeds |-> IF k % 2 = 1 THEN <<2 * k - 2>> ELSE <<2 * k - 2, 2 * k - 1>>]

\* prompt.json of directory name
PromptJson(name) ==
  [edit |-> <<"edit", name>>, input |-> <<"input", name>>, output |-> <<"output", name>>]

FramePath(part, clip, index) ==
  [dir |-> <<part, clip>>, sub |-> "agentago_frames", stem |-> IndexToImgFn(index), ext |-> ".jpg"]

PromptPath(name) ==
  [dir |-> <<name>>, sub |-> "", stem |-> <<>>, ext |-> "prompt.json"]

ImagePath(name, seed, suffix) ==
  [dir |-> <<name>>, sub |-> "", stem |-> <<seed>>, ext |-> suffix]

ManifestPath(file) ==
  [dir |-> <<>>, sub |-> "", stem |-> <<>>, ext |-> file]

\* what distinguishes the picture stored in one image file from another
FileCode(f) ==
  IF f.sub = "agentago_frames"
  THEN 8 * (f.dir[2] - 1) + DigitsValue(f.stem)
  ELSE 2 * f.stem[1] + (IF f.ext = "_1.jpg" THEN 1 ELSE 0)

\* np.array(image.resize((r, r))): an r x r x Channels array of 8-bit values,
\* indexed [y][x][c]; every position of one picture holds another value
Resized(f, r) ==
  LET code == FileCode(f)
  IN [y \in 1 .. r |-> [x \in 1 .. r |-> [c \in 1 .. Channels |->
        (code + PixelMax * (((y - 1) * r + (x - 1)) * Channels + (c - 1))) % ByteRange]]]

----------------------------------------------------------------------------
(* Tensor operations *)

Height(t) == IF Len(t) = 0 THEN 0 ELSE Len(t[1])
Width(t) == IF Height(t) = 0 THEN 0 ELSE Len(t[1][1])

\* the normalisation with the shift by -1 left out
NormalizeNoShift(p) == 2 * p

\* 2 * p / 255 - 1, as a numerator over PixelMax
Normalize(p) == 2 * p - PixelMax

\* rearrange(2 * torch.tensor(a).float() / 255 - 1, "h w c -> c h w")
ToTensor(a) ==
  LET h == Len(a)
      w == IF h = 0 THEN 0 ELSE Len(a[1])
  IN [c \in 1 .. Channels |-> [y \in 1 .. h |-> [x \in 1 .. w |-> Normalize(a[y][x][c])]]]

\* torch.cat((a, b)): along the channel axis
Cat(a, b) == a \o b

\* torchvision F.crop(t, top, left, size, size)
Crop(t, top, left, size) ==
  [c \in 1 .. Len(t) |-> [y \in 1 .. size |-> [x \in 1 .. size |-> t[c][top + y][left + x]]]]

\* torchvision F.hflip(t)
HFlip(t) ==
  [c \in 1 .. Len(t) |-> [y \in 1 .. Height(t) |-> [x \in 1 .. Width(t) |->
     t[c][y][Width(t) + 1 - x]]]]

\* t.chunk(2): along the channel axis, chunks of ceil(n / 2) channels
Chunk2(t) ==
  LET n == Len(t)
      k == (n + 1) \div 2
  IN <<SubSeq(t, 1, k), SubSeq(t, k + 1, n)>>

\* RandomCrop.get_params: the (top, left) offsets it can draw; none when it raises
CropParams(h, w, size) ==
  IF h < size \/ w < size THEN {}
  ELSE IF h = size /\ w = size THEN {<<0, 0>>}
  ELSE RandInt(0, h - size + 1) \X RandInt(0, w - size + 1)

\* torch.rand(1), in hundredths
UniformDraws == {0, 99}

\* RandomHorizontalFlip(p).forward: flips when torch.rand(1) < p
Flips(u, p) == u < p

----------------------------------------------------------------------------
(* Construction *)

\* the split bounds taken from the proportions themselves, not accumulated
SplitRangeNotCumulative(splits, split) ==
  CASE split = "train" -> <<0, splits[1]>>
    [] split = "val" -> <<splits[1], splits[2]>>
    [] split = "test" -> <<splits[2], SplitDenom>>

\* (split_0, split_1): the cumulative proportions bounding the split
SplitRange(splits, split) ==
  CASE split = "train" -> <<0, splits[1]>>
    [] split = "val" -> <<splits[1], splits[1] + splits[2]>>
    [] split = "test" -> <<splits[1] + splits[2], SplitDenom>>

\* the annotation rows rebuilt as metadata dicts, in file order
EpicMetadata(n) ==
  [k \in 1 .. n |->
     [part |-> CsvRow(k).participant_id, clip |-> CsvRow(k).video_id,
      start |-> CsvRow(k).start_frame, stop |-> CsvRow(k).stop_frame,
      narration |-> CsvRow(k).narration]]

\* json.load of seeds.json
SeedsJson(n) == [k \in 1 .. n |-> SeedsEntry(k)]

\* the files the constructor of a class loads
ManifestFiles(cls) ==
  IF cls = "EpicEditDataset"
  THEN <<ManifestPath("info.json"), ManifestPath("EPIC100_annotations.csv")>>
  ELSE <<ManifestPath("seeds.json")>>

\* np.random.shuffle(self.metadata) with the permutation it drew; the two
\* seed-manifest classes keep the file order
Loaded(cls, n, perm) ==
  IF cls = "EpicEditDataset"
  THEN [k \in 1 .. n |-> EpicMetadata(n)[perm[k]]]
  ELSE SeedsJson(n)

NoDataset ==
  [status |-> "none", read |-> <<>>, records |-> <<>>, idx_0 |-> 0, idx_1 |-> 0]

\* a constructor that loads the manifest before it checks its arguments
NewDatasetLoadsFirst(c, n, split, perm) ==
  LET all == Loaded(c.cls, n, perm)
  IN IF split \notin ValidSplits \/ ~SumIsOne(c.splits)
     THEN [NoDataset EXCEPT !.status = "assert_failed", !.read = ManifestFiles(c.cls)]
     ELSE LET range == SplitRange(c.splits, split)
              idx_0 == Floor(range[1] * Len(all), SplitDenom)
              idx_1 == Floor(range[2] * Len(all), SplitDenom)
          IN [status |-> "constructed", read |-> ManifestFiles(c.cls),
              records |-> PySlice(all, idx_0, idx_1), idx_0 |-> idx_0, idx_1 |-> idx_1]

\* __init__ of the three classes: the object it leaves, or the failed assertion
NewDataset(c, n, split, perm) ==
  IF split \notin ValidSplits \/ ~SumIsOne(c.splits)
  THEN [NoDataset EXCEPT !.status = "assert_failed"]
  ELSE LET all == Loaded(c.cls, n, perm)
           range == SplitRange(c.splits, split)
           idx_0 == Floor(range[1] * Len(all), SplitDenom)
           idx_1 == Floor(range[2] * Len(all), SplitDenom)
       IN [status |-> "constructed", read |-> ManifestFiles(c.cls),
           records |-> PySlice(all, idx_0, idx_1), idx_0 |-> idx_0, idx_1 |-> idx_1]

\* the orders a construction can leave the loaded rows in
Shuffles(cls, n) ==
  IF cls = "EpicEditDataset" THEN Permutations(1 .. n) ELSE {[k \in 1 .. n |-> k]}

----------------------------------------------------------------------------
(* __getitem__ *)

NoSample == [none |-> TRUE]

NoCall ==
  [op |-> "none", split |-> "none", index |-> 0, outcome |-> "none", error |-> "",
   value |-> 0, result |-> NoSample, opened |-> <<>>,
   reize_res |-> 0, top |-> 0, left |-> 0]

Raised(err, opened, r) ==
  [NoCall EXCEPT !.outcome = "raised", !.error = err, !.opened = opened, !.reize_res = r]

Returned(sample, opened, r, top, left) ==
  [NoCall EXCEPT !.outcome = "returned", !.result = sample, !.opened = opened,
                 !.reize_res = r, !.top = top, !.left = left]

\* the position of the first of the files that does not exist, or 0
FirstMissing(files, missing) ==
  IF \E k \in 1 .. Len(files) : files[k] \in missing
  THEN CHOOSE k \in 1 .. Len(files) :
         files[k] \in missing /\ \A j \in 1 .. (k - 1) : files[j] \notin missing
  ELSE 0

\* the resize draw with max_resize_res taken as the exclusive bound
ResizeChoicesExclusive(c) == RandInt(c.min_resize_res, c.max_resize_res)

\* torch.randint(min_resize_res, max_resize_res + 1, ()): the resolutions it
\* can draw; none when it raises
ResizeChoices(c) == RandInt(c.min_resize_res, c.max_resize_res + 1)

\* crop and flip applied to each image on its own, each with its own draws
CropFlipSeparately(c, image_0, image_1) ==
  { LET cropped_0 == Crop(image_0, p[1], p[2], c.crop_res)
        cropped_1 == Crop(image_1, q[1], q[2], c.crop_res)
    IN <<p[1], p[2],
         IF Flips(u, c.flip_prob) THEN HFlip(cropped_0) ELSE cropped_0,
         IF Flips(v, c.flip_prob) THEN HFlip(cropped_1) ELSE cropped_1>>
    : p \in CropParams(Height(image_0), Width(image_0), c.crop_res),
      q \in CropParams(Height(image_1), Width(image_1), c.crop_res),
      u \in UniformDraws, v \in UniformDraws }

\* flip(crop(torch.cat((image_0, image_1)))).chunk(2): every (top, left,
\* image_0, image_1) the two random transforms can leave; none when the crop raises
CropFlipOutcomes(c, image_0, image_1) ==
  LET both == Cat(image_0, image_1)
  IN { LET cropped == Crop(both, p[1], p[2], c.crop_res)
           flipped == IF Flips(u, c.flip_prob) THEN HFlip(cropped) ELSE cropped
           chunks == Chunk2(flipped)
       IN <<p[1], p[2], chunks[1], chunks[2]>>
       : p \in CropParams(Height(both), Width(both), c.crop_res), u \in UniformDraws }

\* the sample with the two images in each other's place
PairSampleSwapped(image_0, image_1, prompt) ==
  [edited |-> image_0, edit |-> [c_concat |-> image_1, c_crossattn |-> prompt]]

\* dict(edited=image_1, edit=dict(c_concat=image_0, c_crossattn=prompt))
PairSample(image_0, image_1, prompt) ==
  [edited |-> image_1, edit |-> [c_concat |-> image_0, c_crossattn |-> prompt]]

\* random resize, normalisation, joint random crop and flip of the pair
PairTransform(c, f0, f1, prompt, opened) ==
  IF ResizeChoices(c) = {} THEN {Raised("RuntimeError", opened, 0)}
  ELSE UNION {
    LET image_0 == ToTensor(Resized(f0, reize_res))
        image_1 == ToTensor(Resized(f1, reize_res))
        outs == CropFlipOutcomes(c, image_0, image_1)
    IN IF outs = {} THEN {Raised("ValueError", opened, reize_res)}
       ELSE {Returned(PairSample(o[3], o[4], prompt), opened, reize_res, o[1], o[2])
             : o \in outs}
    : reize_res \in ResizeChoices(c) }

\* EpicEditDataset.__getitem__(index)
EpicGetItem(c, d, missing, index) ==
  IF ~IndexOk(index, Len(d.records)) THEN {Raised("IndexError", <<>>, 0)}
  ELSE LET row == d.records[PyIndex(index, Len(d.records))]
           files == <<FramePath(row.part, row.clip, row.start),
                      FramePath(row.part, row.clip, row.stop)>>
           bad == FirstMissing(files, missing)
       IN IF bad # 0 THEN {Raised("FileNotFoundError", SubSeq(files, 1, bad - 1), 0)}
          ELSE PairTransform(c, files[1], files[2], row.narration, files)

\* EditDataset.__getitem__ once self.seeds[i] is unpacked: seed draw, prompt
\* and image files, transform
EditEntry(c, entry, missing) ==
  IF RandInt(0, Len(entry.seeds)) = {} THEN {Raised("RuntimeError", <<>>, 0)}
  ELSE UNION {
    LET seed == entry.seeds[k + 1]
        files == <<PromptPath(entry.name),
                   ImagePath(entry.name, seed, "_0.jpg"),
                   ImagePath(entry.name, seed, "_1.jpg")>>
        bad == FirstMissing(files, missing)
    IN IF bad # 0 THEN {Raised("FileNotFoundError", SubSeq(files, 1, bad - 1), 0)}
       ELSE PairTransform(c, files[2], files[3], PromptJson(entry.name).edit, files)
    : k \in RandInt(0, Len(entry.seeds)) }

\* a __getitem__ that moves on to the next record when a file is missing
EditGetItemRetriesNext(c, d, missing, i) ==
  IF ~IndexOk(i, Len(d.records)) THEN {Raised("IndexError", <<>>, 0)}
  ELSE LET n == Len(d.records)
           k == PyIndex(i, n)
           outs == EditEntry(c, d.records[k], missing)
           failed == {o \in outs : o.error = "FileNotFoundError"}
       IN IF failed = {} THEN outs
          ELSE (outs \ failed) \cup EditEntry(c, d.records[(k % n) + 1], missing)

\* EditDataset.__getitem__(i)
EditGetItem(c, d, missing, i) ==
  IF ~IndexOk(i, Len(d.records)) THEN {Raised("IndexError", <<>>, 0)}
  ELSE EditEntry(c, d.records[PyIndex(i, Len(d.records))], missing)

\* the evaluation class doing what the training class does
EvalGetItemAsEdit(c, d, missing, i) == EditGetItem(c, d, missing, i)

\* EditDatasetEval.__getitem__(i)
EvalGetItem(c, d, missing, i) ==
  IF ~IndexOk(i, Len(d.records)) THEN {Raised("IndexError", <<>>, 0)}
  ELSE LET entry == d.records[PyIndex(i, Len(d.records))]
       IN IF RandInt(0, Len(entry.seeds)) = {} THEN {Raised("RuntimeError", <<>>, 0)}
          ELSE UNION {
            LET seed == entry.seeds[k + 1]
                files == <<PromptPath(entry.name), ImagePath(entry.name, seed, "_0.jpg")>>
                bad == FirstMissing(files, missing)
                prompt == PromptJson(entry.name)
            IN IF bad # 0
               THEN {Raised("FileNotFoundError", SubSeq(files, 1, bad - 1), 0)}
               ELSE {Returned([image_0 |-> ToTensor(Resized(files[2], reize_res)),
                               input_prompt |-> prompt.input, edit |-> prompt.edit,
                               output_prompt |-> prompt.output],
                              files, reize_res, 0, 0)
                     : reize_res \in RandInt(c.res, c.res + 1)}
            : k \in RandInt(0, Len(entry.seeds)) }

GetItemOutcomes(c, d, missing, i) ==
  CASE c.cls = "EpicEditDataset" -> EpicGetItem(c, d, missing, i)
    [] c.cls = "EditDataset" -> EditGetItem(c, d, missing, i)
    [] c.cls = "EditDatasetEval" -> EvalGetItem(c, d, missing, i)

----------------------------------------------------------------------------
(* The state machine: one caller, one call at a time *)

Indices == (-1) .. MaxRows

\* Dataset(path, split=s, splits=cfg.splits, ...)
Construct(s) ==
  /\ last.op = "none"
  /\ s \in wanted
  /\ ds[s].status = "none"
  /\ \E perm \in Shuffles(cfg.cls, disk.nrows) :
       ds' = [ds EXCEPT ![s] = NewDataset(cfg, disk.nrows, s, perm)]
  /\ UNCHANGED <<disk, cfg, wanted, last, missedBefore>>

\* len(dataset)
LenCall(s) ==
  /\ last.op = "none"
  /\ ds[s].status = "constructed"
  /\ last' = [NoCall EXCEPT !.op = "len", !.split = s, !.outcome = "returned",
                            !.value = Len(ds[s].records)]
  /\ UNCHANGED <<disk, cfg, wanted, ds, missedBefore>>

\* a __getitem__ that drops the record it failed on from the dataset
GetItemDropsFailed(s, i) ==
  /\ last.op = "none"
  /\ ds[s].status = "constructed"
  /\ \E out \in GetItemOutcomes(cfg, ds[s], disk.missing, i) :
       /\ last' = [out EXCEPT !.op = "getitem", !.split = s, !.index = i]
       /\ missedBefore' = (missedBefore \/ out.error = "FileNotFoundError")
       /\ ds' = IF out.error = "FileNotFoundError"
                THEN [ds EXCEPT ![s].records =
                        LET k == PyIndex(i, Len(ds[s].records))
                        IN SubSeq(@, 1, k - 1) \o SubSeq(@, k + 1, Len(@))]
                ELSE ds
  /\ UNCHANGED <<disk, cfg, wanted>>

\* dataset[i]
GetItem(s, i) ==
  /\ last.op = "none"
  /\ ds[s].status = "constructed"
  /\ \E out \in GetItemOutcomes(cfg, ds[s], disk.missing, i) :
       /\ last' = [out EXCEPT !.op = "getitem", !.split = s, !.index = i]
       /\ missedBefore' = (missedBefore \/ out.error = "FileNotFoundError")
  /\ UNCHANGED <<disk, cfg, wanted, ds>>

\* the caller takes the value returned, or the exception raised
Return ==
  /\ last.op # "none"
  /\ last' = NoCall
  /\ UNCHANGED <<disk, cfg, wanted, ds, missedBefore>>

Next ==
  \/ \E s \in SplitArgs : Construct(s)
  \/ \E s \in SplitArgs : LenCall(s)
  \/ \E s \in SplitArgs, i \in Indices : GetItem(s, i)
  \/ Return

\* the split proportions used where the split itself is not under study
UsualSplits == <<SplitDenom - 2, 1, 1>>
TrainOnly == <<SplitDenom, 0, 0>>

FlipProbs == {0, 50}

PlainArgs(cls) ==
  [cls |-> cls, splits |-> UsualSplits, min_resize_res |-> 1, max_resize_res |-> 1,
   crop_res |-> 1, flip_prob |-> 0, res |-> 1]

\* the constructor arguments tried
ArgChoices(cls) ==
  IF cls = "EditDatasetEval"
  THEN {[PlainArgs(cls) EXCEPT !.res = r] : r \in 1 .. MaxRes}
  ELSE {[PlainArgs(cls) EXCEPT !.min_resize_res = lo, !.max_resize_res = hi,
                               !.crop_res = cr, !.flip_prob = fp]
        : lo \in 1 .. MaxRes, hi \in 1 .. MaxRes, cr \in 1 .. MaxRes, fp \in FlipProbs}

\* the files of one row
RowFiles(cls, k) ==
  IF cls = "EpicEditDataset"
  THEN {FramePath(CsvRow(k).participant_id, CsvRow(k).video_id, CsvRow(k).start_frame),
        FramePath(CsvRow(k).participant_id, CsvRow(k).video_id, CsvRow(k).stop_frame)}
  ELSE {PromptPath(SeedsEntry(k).name)}
       \cup {ImagePath(SeedsEntry(k).name, SeedsEntry(k).seeds[j], x)
             : j \in 1 .. Len(SeedsEntry(k).seeds), x \in {"_0.jpg", "_1.jpg"}}

\* the files of the first two rows, one of which may be absent
MissableFiles(cls) == RowFiles(cls, 1) \cup RowFiles(cls, 2)

InitCommon ==
  /\ ds = [s \in SplitArgs |-> NoDataset]
  /\ last = NoCall
  /\ missedBefore = FALSE

\* one dataset over a complete directory under every argument choice; the
\* whole manifest as one dataset with one file of the first rows absent; the
\* three splits of one manifest
Init ==
  /\ InitCommon
  /\ \E cls \in Classes, n \in 0 .. MaxRows :
       \/ /\ cfg \in ArgChoices(cls)
          /\ disk = [nrows |-> n, missing |-> {}]
          /\ \E s \in SplitArgs : wanted = {s}
       \/ /\ cfg = [PlainArgs(cls) EXCEPT !.splits = TrainOnly]
          /\ \E f \in MissableFiles(cls) : disk = [nrows |-> n, missing |-> {f}]
          /\ wanted = {"train"}
       \/ /\ cfg = PlainArgs(cls)
          /\ disk = [nrows |-> n, missing |-> {}]
          /\ wanted = ValidSplits

Spec == Init /\ [][Next]_vars

SplitNums == (-NegSplitNum) .. (SplitDenom + 1)

\* the three splits of one manifest, or a misspelt split, under every pair of
\* first proportions within the bounds, the third making the sum 1 or missing it
InitSplit ==
  /\ InitCommon
  /\ \E cls \in Classes, n \in 0 .. MaxRows, a \in SplitNums, b \in SplitNums, off \in {0, 1} :
       /\ cfg = [PlainArgs(cls) EXCEPT !.splits = <<a, b, SplitDenom - a - b + off>>]
       /\ disk = [nrows |-> n, missing |-> {}]
       /\ wanted \in {ValidSplits, SplitArgs \ ValidSplits}

SpecSplit == InitSplit /\ [][Next]_vars

----------------------------------------------------------------------------
(* Properties *)

AllBuilt == \A s \in ValidSplits : ds[s].status = "constructed"

\* the positions of the manifest that the slice [idx_0:idx_1] of a split takes
Lo(s) == SliceBound(ds[s].idx_0, disk.nrows)
Hi(s) == SliceBound(ds[s].idx_1, disk.nrows)
IndexRange(s) == {k \in 0 .. (disk.nrows - 1) : Lo(s) <= k /\ k < Hi(s)}

RangesPartition ==
  /\ IndexRange("train") \cap IndexRange("val") = {}
  /\ IndexRange("train") \cap IndexRange("test") = {}
  /\ IndexRange("val") \cap IndexRange("test") = {}
  /\ Lo("train") = 0 /\ Hi("train") = Lo("val")
  /\ Hi("val") = Lo("test") /\ Hi("test") = disk.nrows
  /\ IndexRange("train") \cup IndexRange("val") \cup IndexRange("test")
       = 0 .. (disk.nrows - 1)
  /\ Len(ds["train"].records) + Len(ds["val"].records) + Len(ds["test"].records)
       = disk.nrows

\* C1, as stated: for every manifest length and every splits triple that sums
\* to 1, the index ranges the three constructors compute for train, val and
\* test are pairwise disjoint, contiguous and cover 0..N-1, and the three
\* lengths sum to N.
C1_AnyTriplePartitions == AllBuilt => RangesPartition

NonNegative(splits) == \A k \in 1 .. 3 : splits[k] >= 0

\* C1, amended: the same, for every splits triple of proportions >= 0 that
\* sums to 1.
C1_ProportionsPartition ==
  (AllBuilt /\ NonNegative(cfg.splits)) => RangesPartition

C1_Witness ==
  /\ AllBuilt
  /\ NonNegative(cfg.splits)
  /\ \A s \in ValidSplits : Len(ds[s].records) >= 1

Held(s) == {ds[s].records[k] : k \in 1 .. Len(ds[s].records)}

\* C2: the train, val and test EpicEditDataset objects built from one
\* annotation CSV with the same splits hold every row exactly once: no row is
\* in two of them and none is left out.
C2_EpicRowsPartition ==
  (cfg.cls = "EpicEditDataset" /\ AllBuilt) =>
     /\ Held("train") \cap Held("val") = {}
     /\ Held("train") \cap Held("test") = {}
     /\ Held("val") \cap Held("test") = {}
     /\ Held("train") \cup Held("val") \cup Held("test")
          = {EpicMetadata(disk.nrows)[k] : k \in 1 .. disk.nrows}

\* C4: a construction whose split is not train, val or test, or whose
\* proportions do not sum to 1, ends in the failed assertion with no manifest
\* file read and no dataset produced.
C4_AssertsBeforeLoading ==
  \A s \in SplitArgs :
    (/\ ds[s].status # "none"
     /\ \/ s \notin {"train", "val", "test"}
        \/ cfg.splits[1] + cfg.splits[2] + cfg.splits[3] # SplitDenom)
    => /\ ds[s].status = "assert_failed"
       /\ ds[s].read = <<>>
       /\ ds[s].records = <<>>

C4_Witness ==
  /\ ds["train"].status = "assert_failed"
  /\ cfg.splits[1] + cfg.splits[2] + cfg.splits[3] # SplitDenom
  /\ disk.nrows >= 1

\* the same for a misspelt split with proportions that do sum to 1
C4_WitnessSplit ==
  /\ ds["all"].status = "assert_failed"
  /\ cfg.splits[1] + cfg.splits[2] + cfg.splits[3] = SplitDenom
  /\ disk.nrows >= 1

----------------------------------------------------------------------------
(* Properties of the calls *)

IsPair == cfg.cls \in {"EpicEditDataset", "EditDataset"}
GotItem == last.op = "getitem" /\ last.outcome = "returned"

\* C3: once a dataset is constructed, no call changes its record list, and
\* __len__ returns the length of that list.
C3_RecordsImmutable ==
  [][\A s \in SplitArgs :
       ds[s].status = "constructed" =>
         /\ ds'[s] = ds[s]
         /\ (last'.op = "len" /\ last'.split = s) => last'.value = Len(ds[s].records)]_vars

C3_Witness ==
  /\ last.op = "len"
  /\ missedBefore
  /\ last.value = disk.nrows
  /\ disk.nrows >= 2

\* the r x r array img normalised, cropped to the size x size window at
\* (top, left) and, with flip, mirrored left to right
Window(img, top, left, size, flip) ==
  [c \in 1 .. Channels |-> [y \in 1 .. size |-> [x \in 1 .. size |->
     2 * img[top + y][left + (IF flip THEN size + 1 - x ELSE x)][c] - PixelMax]]]

\* the same of the image a file gives when resized to r
Expected(f, r, top, left, size, flip) == Window(Resized(f, r), top, left, size, flip)

Before == last.opened[Len(last.opened) - 1]
After == last.opened[Len(last.opened)]

\* C5: the two images a pair dataset returns come from one resolution, one
\* crop window and one flip decision.
C5_JointCropFlip ==
  (IsPair /\ GotItem) =>
    \E r \in cfg.min_resize_res .. cfg.max_resize_res :
      LET before == Resized(Before, r)
          after == Resized(After, r)
      IN \E top \in 0 .. (r - cfg.crop_res), left \in 0 .. (r - cfg.crop_res), flip \in BOOLEAN :
           /\ last.result.edit.c_concat = Window(before, top, left, cfg.crop_res, flip)
           /\ last.result.edited = Window(after, top, left, cfg.crop_res, flip)

C5_Witness ==
  /\ IsPair /\ GotItem
  /\ cfg.crop_res >= 2
  /\ last.reize_res > cfg.crop_res
  /\ last.top > 0 /\ last.left > 0
  /\ last.result.edit.c_concat = Expected(Before, last.reize_res, last.top, last.left, cfg.crop_res, TRUE)

\* the image tensors of a returned sample
Tensors ==
  IF IsPair THEN {last.result.edit.c_concat, last.result.edited}
  ELSE {last.result.image_0}

\* the image files a returned sample was made from
Sources == IF IsPair THEN {Before, After} ELSE {After}

Elements(t) ==
  {t[c][y][x] : c \in 1 .. Len(t), y \in 1 .. Height(t), x \in 1 .. Width(t)}

Pixels(f, r) ==
  LET img == Resized(f, r)
  IN {img[y][x][c] : y \in 1 .. r, x \in 1 .. r, c \in 1 .. Channels}

\* C6: the normalisation maps 0..255 into [-1, 1], strictly increasing, with 0
\* to -1 and 255 to 1 (a fact about the function, evaluated between calls),
\* and every element of a returned image is the normalised value of a pixel
\* of the resized source, so within [-1, 1] (values are numerators over
\* PixelMax).
C6_NormalizedRange ==
  /\ last.op = "none" =>
       /\ \A p \in 0 .. PixelMax : -PixelMax <= Normalize(p) /\ Normalize(p) <= PixelMax
       /\ Normalize(0) = -PixelMax
       /\ Normalize(PixelMax) = PixelMax
       /\ \A p \in 0 .. (PixelMax - 1) : Normalize(p) < Normalize(p + 1)
  /\ GotItem =>
       LET normalised == {2 * p - PixelMax : p \in UNION {Pixels(f, last.reize_res) : f \in Sources}}
       IN \A t \in Tensors : \A v \in Elements(t) :
            -PixelMax <= v /\ v <= PixelMax /\ v \in normalised

C6_Witness ==
  /\ GotItem
  /\ \E t \in Tensors : {-PixelMax, PixelMax} \subseteq Elements(t)

\* the record a call refers to
Called == ds[last.split].records[PyIndex(last.index, Len(ds[last.split].records))]

\* C7: EditDatasetEval.__getitem__ never opens an after image, and what it
\* returns has exactly the keys image_0, input_prompt, edit and output_prompt,
\* with image_0 the whole source image at res x res, neither cropped nor flipped.
C7_EvalSourceOnly ==
  (cfg.cls = "EditDatasetEval" /\ last.op = "getitem") =>
    /\ \A k \in 1 .. Len(last.opened) : last.opened[k].ext # "_1.jpg"
    /\ GotItem =>
         /\ DOMAIN last.result = {"image_0", "input_prompt", "edit", "output_prompt"}
         /\ After.dir = <<Called.name>> /\ After.ext = "_0.jpg"
         /\ \E k \in 1 .. Len(Called.seeds) : After.stem = <<Called.seeds[k]>>
         /\ Height(last.result.image_0) = cfg.res
         /\ Width(last.result.image_0) = cfg.res
         /\ last.result.image_0 = Expected(After, cfg.res, 0, 0, cfg.res, FALSE)
         /\ last.result.input_prompt = PromptJson(Called.name).input
         /\ last.result.edit = PromptJson(Called.name).edit
         /\ last.result.output_prompt = PromptJson(Called.name).output

C7_Witness ==
  /\ cfg.cls = "EditDatasetEval"
  /\ GotItem
  /\ cfg.res >= 2

\* the same over a directory whose after image is absent
C7_WitnessNoAfter ==
  /\ cfg.cls = "EditDatasetEval"
  /\ GotItem
  /\ \E f \in disk.missing : f.ext = "_1.jpg" /\ f.dir = After.dir /\ f.stem = After.stem

\* the sets of files a call on a record may need, one set per seed it can draw
Needs(cls, rec) ==
  IF cls = "EpicEditDataset"
  THEN {{FramePath(rec.part, rec.clip, rec.start), FramePath(rec.part, rec.clip, rec.stop)}}
  ELSE {{PromptPath(rec.name), ImagePath(rec.name, rec.seeds[k], "_0.jpg")}
          \cup (IF cls = "EditDataset" THEN {ImagePath(rec.name, rec.seeds[k], "_1.jpg")}
                ELSE {})
        : k \in 1 .. Len(rec.seeds)}

MadeFrom(t, f) ==
  \E flip \in BOOLEAN :
    t = Expected(f, last.reize_res, last.top, last.left, cfg.crop_res, flip)

\* C9: a returned sample of a pair dataset is the before and the after image
\* of the record called for: one seed's _0 and _1 files of its directory (the
\* start and the stop frame of its clip), the before image as edit.c_concat,
\* the after image as edited, its instruction (narration) as edit.c_crossattn.
C9_TruePair ==
  (IsPair /\ GotItem) =>
    /\ IF cfg.cls = "EditDataset"
       THEN /\ \E k \in 1 .. Len(Called.seeds) :
                 last.opened = <<PromptPath(Called.name),
                                 ImagePath(Called.name, Called.seeds[k], "_0.jpg"),
                                 ImagePath(Called.name, Called.seeds[k], "_1.jpg")>>
            /\ last.result.edit.c_crossattn = PromptJson(Called.name).edit
       ELSE /\ last.opened = <<FramePath(Called.part, Called.clip, Called.start),
                               FramePath(Called.part, Called.clip, Called.stop)>>
            /\ last.result.edit.c_crossattn = Called.narration
    /\ MadeFrom(last.result.edit.c_concat, Before)
    /\ MadeFrom(last.result.edited, After)
    /\ ~MadeFrom(last.result.edit.c_concat, After)

C9_Witness ==
  /\ cfg.cls = "EditDataset" /\ GotItem
  /\ Len(Called.seeds) >= 2
  /\ After.stem = <<Called.seeds[2]>>
  /\ Len(ds[last.split].records) >= 2

\* the same for the frame dataset, on a record that the shuffle moved
C9_WitnessEpic ==
  /\ cfg.cls = "EpicEditDataset" /\ GotItem
  /\ Called.clip # PyIndex(last.index, Len(ds[last.split].records))

\* C10: a pair dataset's call that gets as far as the resize draws an integer
\* resolution within [min_resize_res, max_resize_res]; with crop_res <=
\* min_resize_res <= max_resize_res it returns, the crop window inside the
\* resized image and both images crop_res x crop_res; with min_resize_res >
\* max_resize_res, or crop_res above the resolution drawn, it raises.
C10_ResizeWithinBounds ==
  (IsPair /\ last.op = "getitem" /\ last.error \notin {"IndexError", "FileNotFoundError"}) =>
    /\ last.reize_res # 0 =>
         (cfg.min_resize_res <= last.reize_res /\ last.reize_res <= cfg.max_resize_res)
    /\ cfg.min_resize_res > cfg.max_resize_res => last.outcome = "raised"
    /\ (last.reize_res # 0 /\ cfg.crop_res > last.reize_res) => last.outcome = "raised"
    /\ (cfg.crop_res <= cfg.min_resize_res /\ cfg.min_resize_res <= cfg.max_resize_res) =>
         last.outcome = "returned"
    /\ last.outcome = "returned" =>
         /\ last.reize_res # 0
         /\ 0 <= last.top /\ last.top + cfg.crop_res <= last.reize_res
         /\ 0 <= last.left /\ last.left + cfg.crop_res <= last.reize_res
         /\ \A t \in Tensors :
              Len(t) = Channels /\ Height(t) = cfg.crop_res /\ Width(t) = cfg.crop_res

C10_Witness ==
  /\ IsPair /\ GotItem
  /\ cfg.min_resize_res < cfg.max_resize_res
  /\ last.reize_res = cfg.max_resize_res
  /\ cfg.crop_res < last.reize_res
  /\ last.top + cfg.crop_res = last.reize_res
  /\ last.left + cfg.crop_res = last.reize_res

\* the lower bound is drawn too
C10_WitnessMin ==
  /\ IsPair /\ GotItem
  /\ cfg.min_resize_res < cfg.max_resize_res
  /\ last.reize_res = cfg.min_resize_res

\* and a crop larger than the resolution drawn raises
C10_WitnessRaise ==
  /\ IsPair /\ last.outcome = "raised"
  /\ last.reize_res # 0
  /\ cfg.crop_res > last.reize_res

====
